---- MODULE Spec2Model ----
(***************************************************************************)
(* Model of src/app.py: the contact-form backend.  One Flask view,         *)
(* handle_contact_form, validates a JSON payload and stores it as one row  *)
(* of the Message table through the Flask-SQLAlchemy scoped session        *)
(* db.session; db.create_all() runs at every process start.                *)
(*                                                                         *)
(* A handler run is split at the points where it touches storage shared    *)
(* with other requests: Begin (lines 46-65), Add (70-77), Commit (78-82),  *)
(* Rollback (85), Return500 (86-88), Teardown (the app-context teardown    *)
(* that Flask-SQLAlchemy registers: db.session.remove()).                  *)
(***************************************************************************)
EXTENDS Integers, Sequences, FiniteSets, TLC

VARIABLES
    phase,        \* "boot": module body not yet at line 95; "serving": after it
    tableExists,  \* does the Message table exist in the database
    schema,       \* column set of the Message table as it exists in the database
    table,        \* committed rows of Message, in insertion order
    clock,        \* the UTC clock read by datetime.datetime.utcnow
    nworkers,     \* number of server threads running the view
    pc,           \* pc[w]: position of thread w inside handle_contact_form
    req,          \* req[w]: the flask request thread w is serving
    rid,          \* rid[w]: arrival time of that request (identifies it)
    locals,       \* locals[w]: name, email, subject, message (lines 58-61)
    resp,         \* resp[w]: what the view returned (NoResp: nothing yet)
    escaped,      \* escaped[w]: exception that left the view uncaught
    caught,       \* caught[w]: the except clause of line 84 was entered
    session,      \* session[k]: pending objects of the session of scope k
    failed,       \* history: requests (by rid) whose insert raised
    tableAtCall,  \* history: the table when the request arrived
    inspected,    \* history: lines 58-61 read the payload's fields
    ops           \* history: storage calls made by the request so far

vars == <<phase, tableExists, schema, table, clock, nworkers, pc, req, rid,
          locals, resp, escaped, caught, session, failed, tableAtCall,
          inspected, ops>>

----------------------------------------------------------------------------
(* Bounds *)

MaxClock == 3     \* requests served in one behaviour
NumWorkers == 2   \* threads of the concurrent specification

Workers == 1..nworkers
AllWorkers == 1..NumWorkers

----------------------------------------------------------------------------
(* JSON values and requests *)

JNull == [t |-> "null", v |-> ""]
JStr(s) == [t |-> "str", v |-> s]
JObj == [t |-> "obj", v |-> "{k:1}"]     \* a non-empty nested JSON object

Keys == {"name", "email", "subject", "message", "timestamp"}

ValsOf(k) ==
    CASE k = "name"      -> {JNull, JStr(""), JStr("Alice")}
      [] k = "email"     -> {JNull, JStr(""), JStr("a@x.com")}
      [] k = "message"   -> {JNull, JStr(""), JStr("Hello"), JObj}
      [] k = "subject"   -> {JNull, JStr(""), JStr("Hi")}
      [] k = "timestamp" -> {JStr("1999-01-01")}

AllVals == UNION {ValsOf(k) : k \in Keys}

\* every JSON object over Keys; a key may be absent
Objects ==
    UNION {{f \in [K -> AllVals] : \A k \in K : f[k] \in ValsOf(k)} : K \in SUBSET Keys}

EmptyObj == [k \in {} |-> JNull]

\* is_json: the Content-Type is application/json; wellformed: the body parses;
\* kind/fields: the parsed value
Request(j, wf, kind, f) == [is_json |-> j, wellformed |-> wf, kind |-> kind, fields |-> f]

NoReq == Request(FALSE, FALSE, "none", EmptyObj)

AliceFull == [k \in {"name", "email", "subject", "message"} |->
                 CASE k = "name" -> JStr("Alice") [] k = "email" -> JStr("a@x.com")
                   [] k = "subject" -> JStr("Hi") [] k = "message" -> JStr("Hello")]

Requests ==
    {Request(TRUE, TRUE, "object", f) : f \in Objects}
    \cup {Request(TRUE, TRUE, k, EmptyObj) : k \in {"null", "list", "string"}}
    \cup {Request(TRUE, FALSE, "none", EmptyObj)}
    \cup {Request(FALSE, FALSE, "none", EmptyObj), Request(FALSE, TRUE, "object", AliceFull)}

\* the payloads of the request arriving at time t in the concurrent
\* specification: a valid one whose subject differs between consecutive
\* requests, and one missing its name
ConcRequests(t) ==
    {IF t % 2 = 1
     THEN Request(TRUE, TRUE, "object", AliceFull)
     ELSE Request(TRUE, TRUE, "object", [k \in {"name", "email", "message"} |-> AliceFull[k]]),
     Request(TRUE, TRUE, "object", [AliceFull EXCEPT !["name"] = JStr("")])}

RequestsFor(n, t) == IF n = 1 THEN Requests ELSE ConcRequests(t)

----------------------------------------------------------------------------
(* Pure helpers *)

\* dict.get(key): None when the key is absent
Get(data, k) == IF k \in DOMAIN data THEN data[k] ELSE JNull

\* variant: the check written as `is None`
TruthyNotNone(x) == x.t # "null"

\* Python truth value of a JSON value (the operand of `not` on line 63)
Truthy(x) ==
    CASE x.t = "null" -> FALSE
      [] x.t = "str"  -> x.v # ""
      [] x.t = "obj"  -> TRUE

\* variant: line 63 without `or not message`
RequiredPresentNoMessage(l) == Truthy(l.name) /\ Truthy(l.email)

\* line 63 negated
RequiredPresent(l) == Truthy(l.name) /\ Truthy(l.email) /\ Truthy(l.message)

Unset == -1

\* variant: the constructor call without subject=subject
NewMessageNoSubject(l, r) ==
    [id |-> 0, name |-> l.name, email |-> l.email, subject |-> JNull,
     message |-> l.message, timestamp |-> Unset, rid |-> r]

\* variant: subject=subject or None
NewMessageSubjectOrNone(l, r) ==
    [id |-> 0, name |-> l.name, email |-> l.email,
     subject |-> IF l.subject.t = "str" /\ l.subject.v = "" THEN JNull ELSE l.subject,
     message |-> l.message, timestamp |-> Unset, rid |-> r]

\* lines 70-75: Message(name=, email=, subject=, message=); id and timestamp unset
NewMessage(l, r) ==
    [id |-> 0, name |-> l.name, email |-> l.email, subject |-> l.subject,
     message |-> l.message, timestamp |-> Unset, rid |-> r]

\* a String/Text column binds str and None; anything else makes the INSERT raise
Bindable(x) == x.t \in {"str", "null"}

\* nullable=False on name, email, message
InsertRaises(o) ==
    \/ ~Bindable(o.name) \/ ~Bindable(o.email) \/ ~Bindable(o.subject) \/ ~Bindable(o.message)
    \/ o.name = JNull \/ o.email = JNull \/ o.message = JNull

\* the INSERT: autoincrement id, timestamp default=datetime.datetime.utcnow
InsertRow(o, id, now) ==
    [o EXCEPT !.id = id, !.timestamp = IF o.timestamp = Unset THEN now ELSE o.timestamp]

RECURSIVE Flush(_, _, _)
Flush(tbl, pending, now) ==
    IF pending = <<>> THEN tbl
    ELSE Flush(Append(tbl, InsertRow(Head(pending), Len(tbl) + 1, now)), Tail(pending), now)

\* variant: one plain Session shared by every thread
SessionKeyShared(w) == 1

\* db.session is a scoped_session: one Session per thread / app context
SessionKey(w) == w

Columns == {"id", "name", "email", "subject", "message", "timestamp"}

NoLocals == [name |-> JNull, email |-> JNull, subject |-> JNull, message |-> JNull]

NoResp == [status |-> "", message |-> "", code |-> 0]
RespBadFormat == [status |-> "error", message |-> "need_json", code |-> 400]
RespMissing == [status |-> "error", message |-> "fill_fields", code |-> 400]
RespSaved == [status |-> "success", message |-> "saved", code |-> 200]
RespDbError == [status |-> "error", message |-> "db_error", code |-> 500]

OldRow == [id |-> 1, name |-> JStr("Alice"), email |-> JStr("a@x.com"), subject |-> JNull,
           message |-> JStr("Hello"), timestamp |-> 0, rid |-> 0]

----------------------------------------------------------------------------
(* Initial states: a process whose module body is about to run             *)
(* db.create_all(), on a database that is new or left by an earlier run.   *)

InitCommon ==
    /\ phase = "boot"
    /\ \/ tableExists = FALSE /\ schema = {} /\ table = <<>>
       \/ tableExists = TRUE /\ schema = Columns /\ table \in {<<>>, <<OldRow>>}
    /\ clock = 0
    /\ pc = [w \in AllWorkers |-> "idle"]
    /\ req = [w \in AllWorkers |-> NoReq]
    /\ rid = [w \in AllWorkers |-> 0]
    /\ locals = [w \in AllWorkers |-> NoLocals]
    /\ resp = [w \in AllWorkers |-> NoResp]
    /\ escaped = [w \in AllWorkers |-> ""]
    /\ caught = [w \in AllWorkers |-> FALSE]
    /\ session = [k \in AllWorkers |-> <<>>]
    /\ failed = {}
    /\ tableAtCall = [w \in AllWorkers |-> <<>>]
    /\ inspected = [w \in AllWorkers |-> FALSE]
    /\ ops = [w \in AllWorkers |-> <<>>]

Init == InitCommon /\ nworkers = 1
InitConc == InitCommon /\ nworkers = NumWorkers

----------------------------------------------------------------------------
(* Process start *)

\* variant: drop_all() before create_all()
CreateAllRecreate ==
    /\ phase = "boot"
    /\ phase' = "serving"
    /\ tableExists' = TRUE
    /\ schema' = Columns
    /\ table' = <<>>
    /\ UNCHANGED <<clock, nworkers, pc, req, rid, locals, resp, escaped, caught,
                   session, failed, tableAtCall, inspected, ops>>

\* lines 94-96: CREATE TABLE only for tables that do not exist yet
CreateAll ==
    /\ phase = "boot"
    /\ phase' = "serving"
    /\ tableExists' = TRUE
    /\ schema' = IF tableExists THEN schema ELSE Columns
    /\ table' = IF tableExists THEN table ELSE <<>>
    /\ UNCHANGED <<clock, nworkers, pc, req, rid, locals, resp, escaped, caught,
                   session, failed, tableAtCall, inspected, ops>>

\* the process is stopped between requests and started again
Restart ==
    /\ phase = "serving"
    /\ \A w \in Workers : pc[w] = "idle"
    /\ phase' = "boot"
    /\ UNCHANGED <<tableExists, schema, table, clock, nworkers, pc, req, rid, locals,
                   resp, escaped, caught, session, failed, tableAtCall,
                   inspected, ops>>

----------------------------------------------------------------------------
(* handle_contact_form *)

ReadLocals(f) ==
    [name |-> Get(f, "name"), email |-> Get(f, "email"),
     subject |-> Get(f, "subject"), message |-> Get(f, "message")]

\* lines 46-65: the request arrives and is checked
Begin(w, r) ==
    /\ phase = "serving"
    /\ pc[w] = "idle"
    /\ clock < MaxClock
    /\ clock' = clock + 1
    /\ rid' = [rid EXCEPT ![w] = clock + 1]
    /\ req' = [req EXCEPT ![w] = r]
    /\ tableAtCall' = [tableAtCall EXCEPT ![w] = table]
    /\ ops' = [ops EXCEPT ![w] = <<>>]
    /\ caught' = [caught EXCEPT ![w] = FALSE]
    /\ IF ~r.is_json
       THEN \* line 50-52
            /\ resp' = [resp EXCEPT ![w] = RespBadFormat]
            /\ pc' = [pc EXCEPT ![w] = "done"]
            /\ UNCHANGED <<escaped, inspected, locals>>
       ELSE IF ~r.wellformed
       THEN \* line 54: get_json() raises BadRequest, no handler around it
            /\ escaped' = [escaped EXCEPT ![w] = "BadRequest"]
            /\ pc' = [pc EXCEPT ![w] = "done"]
            /\ UNCHANGED <<resp, inspected, locals>>
       ELSE IF r.kind # "object"
       THEN \* line 58: data.get on None, a list or a str raises AttributeError
            /\ escaped' = [escaped EXCEPT ![w] = "AttributeError"]
            /\ pc' = [pc EXCEPT ![w] = "done"]
            /\ UNCHANGED <<resp, inspected, locals>>
       ELSE \* lines 58-65
            /\ inspected' = [inspected EXCEPT ![w] = TRUE]
            /\ IF ~RequiredPresent(ReadLocals(r.fields))
               THEN /\ resp' = [resp EXCEPT ![w] = RespMissing]
                    /\ pc' = [pc EXCEPT ![w] = "done"]
                    /\ UNCHANGED locals
               ELSE /\ locals' = [locals EXCEPT ![w] = ReadLocals(r.fields)]
                    /\ pc' = [pc EXCEPT ![w] = "try"]
                    /\ UNCHANGED resp
            /\ UNCHANGED escaped
    /\ UNCHANGED <<phase, tableExists, schema, table, nworkers, session, failed>>

\* an exception inside the try block of line 68 enters the except clause
Raise(w) ==
    /\ caught' = [caught EXCEPT ![w] = TRUE]
    /\ failed' = failed \cup {rid[w]}
    /\ pc' = [pc EXCEPT ![w] = "except"]

\* lines 70-77: build the Message and stage it
Add(w) ==
    /\ pc[w] = "try"
    /\ \E fault \in BOOLEAN :
         IF fault
         THEN /\ Raise(w)
              /\ UNCHANGED <<session, ops>>
         ELSE /\ session' = [session EXCEPT ![SessionKey(w)] =
                                Append(@, NewMessage(locals[w], rid[w]))]
              /\ ops' = [ops EXCEPT ![w] = Append(@, "add")]
              /\ pc' = [pc EXCEPT ![w] = "commit"]
              /\ UNCHANGED <<caught, failed>>
    /\ UNCHANGED <<phase, tableExists, schema, table, clock, nworkers, req, rid, locals,
                   resp, escaped, tableAtCall, inspected>>

\* variant: an except clause that answers 500 without db.session.rollback()
CommitRaiseNoRollback(w) ==
    /\ caught' = [caught EXCEPT ![w] = TRUE]
    /\ failed' = failed \cup {rid[w]}
    /\ ops' = [ops EXCEPT ![w] = Append(@, "commit")]
    /\ resp' = [resp EXCEPT ![w] = RespDbError]
    /\ pc' = [pc EXCEPT ![w] = "done"]
    /\ UNCHANGED <<table, session>>

\* line 78 raising: the transaction writes nothing, the objects stay pending
CommitRaise(w) ==
    /\ Raise(w)
    /\ ops' = [ops EXCEPT ![w] = Append(@, "commit")]
    /\ UNCHANGED <<table, session, resp>>

\* lines 78-82: one transaction inserts every pending object of the session
CommitOk(w) ==
    /\ table' = Flush(table, session[SessionKey(w)], clock)
    /\ session' = [session EXCEPT ![SessionKey(w)] = <<>>]
    /\ ops' = [ops EXCEPT ![w] = Append(@, "commit")]
    /\ resp' = [resp EXCEPT ![w] = RespSaved]
    /\ pc' = [pc EXCEPT ![w] = "done"]
    /\ UNCHANGED <<caught, failed>>

Commit(w) ==
    /\ pc[w] = "commit"
    /\ \E fault \in BOOLEAN :
         IF fault \/ \E i \in 1..Len(session[SessionKey(w)]) :
                         InsertRaises(session[SessionKey(w)][i])
         THEN CommitRaise(w)
         ELSE CommitOk(w)
    /\ UNCHANGED <<phase, tableExists, schema, clock, nworkers, req, rid, locals,
                   escaped, tableAtCall, inspected>>

\* variant: a rollback that leaves the pending objects in the session
RollbackKeepsPending(w) ==
    /\ pc[w] = "except"
    /\ ops' = [ops EXCEPT ![w] = Append(@, "rollback")]
    /\ pc' = [pc EXCEPT ![w] = "rolledback"]
    /\ UNCHANGED <<phase, tableExists, schema, table, clock, nworkers, req, rid, locals,
                   resp, escaped, caught, session, failed, tableAtCall, inspected>>

\* line 85: db.session.rollback() expunges what the session had pending
Rollback(w) ==
    /\ pc[w] = "except"
    /\ session' = [session EXCEPT ![SessionKey(w)] = <<>>]
    /\ ops' = [ops EXCEPT ![w] = Append(@, "rollback")]
    /\ pc' = [pc EXCEPT ![w] = "rolledback"]
    /\ UNCHANGED <<phase, tableExists, schema, table, clock, nworkers, req, rid, locals,
                   resp, escaped, caught, failed, tableAtCall, inspected>>

\* lines 86-88
Return500(w) ==
    /\ pc[w] = "rolledback"
    /\ resp' = [resp EXCEPT ![w] = RespDbError]
    /\ pc' = [pc EXCEPT ![w] = "done"]
    /\ UNCHANGED <<phase, tableExists, schema, table, clock, nworkers, req, rid, locals,
                   escaped, caught, session, failed, tableAtCall, inspected, ops>>

\* the response is sent; the app-context teardown runs db.session.remove()
Teardown(w) ==
    /\ pc[w] = "done"
    /\ session' = [session EXCEPT ![SessionKey(w)] = <<>>]
    /\ pc' = [pc EXCEPT ![w] = "idle"]
    /\ req' = [req EXCEPT ![w] = NoReq]
    /\ rid' = [rid EXCEPT ![w] = 0]
    /\ locals' = [locals EXCEPT ![w] = NoLocals]
    /\ resp' = [resp EXCEPT ![w] = NoResp]
    /\ escaped' = [escaped EXCEPT ![w] = ""]
    /\ caught' = [caught EXCEPT ![w] = FALSE]
    /\ tableAtCall' = [tableAtCall EXCEPT ![w] = <<>>]
    /\ inspected' = [inspected EXCEPT ![w] = FALSE]
    /\ ops' = [ops EXCEPT ![w] = <<>>]
    /\ UNCHANGED <<phase, tableExists, schema, table, clock, nworkers, failed>>

Next ==
    \/ CreateAll
    \/ Restart
    \/ \E w \in Workers : \E r \in RequestsFor(nworkers, clock + 1) : Begin(w, r)
    \/ \E w \in Workers : Add(w)
    \/ \E w \in Workers : Commit(w)
    \/ \E w \in Workers : Rollback(w)
    \/ \E w \in Workers : Return500(w)
    \/ \E w \in Workers : Teardown(w)

Spec == Init /\ [][Next]_vars
SpecConc == InitConc /\ [][Next]_vars

----------------------------------------------------------------------------
(* Vocabulary of the properties *)

\* the body is JSON, parses, and is an object
IsObjectRequest(r) == r.is_json /\ r.wellformed /\ r.kind = "object"

\* key k is present with a value that is neither null nor the empty string
NonEmptyField(f, k) == k \in DOMAIN f /\ f[k] # JNull /\ f[k] # JStr("")

AllRequiredGiven(r) ==
    NonEmptyField(r.fields, "name") /\ NonEmptyField(r.fields, "email")
    /\ NonEmptyField(r.fields, "message")

\* the submitted value of key k, null standing for an absent key
Submitted(r, k) == IF k \in DOMAIN r.fields THEN r.fields[k] ELSE JNull

RowMatches(row, r) ==
    /\ row.name = Submitted(r, "name")
    /\ row.email = Submitted(r, "email")
    /\ row.subject = Submitted(r, "subject")
    /\ row.message = Submitted(r, "message")

\* positions of the rows stored for the request thread w is serving
OwnRows(w) == {i \in 1..Len(table) : table[i].rid = rid[w]}

OneNewRow(w) ==
    /\ Len(table) = Len(tableAtCall[w]) + 1
    /\ SubSeq(table, 1, Len(tableAtCall[w])) = tableAtCall[w]
    /\ RowMatches(table[Len(table)], req[w])

Answered(w) == pc[w] = "done"

----------------------------------------------------------------------------
(* Properties *)

\* C1 as stated: every request with non-empty name, email and message is
\* answered success/200 and leaves exactly one more row, carrying the
\* submitted name, email, subject and message.
C1_ValidAlwaysStored ==
    \A w \in Workers :
        (Answered(w) /\ IsObjectRequest(req[w]) /\ AllRequiredGiven(req[w]))
            => /\ resp[w].status = "success" /\ resp[w].code = 200
               /\ OneNewRow(w)

\* C1 amended: the same, for the requests whose add and commit do not raise.
C1_ValidStoredUnlessRaise ==
    \A w \in Workers :
        (Answered(w) /\ IsObjectRequest(req[w]) /\ AllRequiredGiven(req[w]) /\ ~caught[w])
            => /\ resp[w].status = "success" /\ resp[w].code = 200
               /\ OneNewRow(w)

C1_Witness ==
    \E w \in Workers :
        /\ Answered(w) /\ IsObjectRequest(req[w]) /\ AllRequiredGiven(req[w]) /\ ~caught[w]
        /\ "subject" \in DOMAIN req[w].fields /\ req[w].fields["subject"] = JStr("Hi")
        /\ Len(table) >= 2

\* C2: a JSON object in which name, email or message is the empty string,
\* null or absent is answered error/400, and nothing was staged, committed
\* or rolled back: the table is the one found at the call.
C2_MissingRejected ==
    \A w \in Workers :
        (Answered(w) /\ IsObjectRequest(req[w]) /\ ~AllRequiredGiven(req[w]))
            => /\ resp[w].status = "error" /\ resp[w].code = 400
               /\ table = tableAtCall[w]
               /\ ops[w] = <<>>
               /\ session[SessionKey(w)] = <<>>

C2_Witness ==
    \E w \in Workers :
        /\ Answered(w) /\ IsObjectRequest(req[w])
        /\ "name" \in DOMAIN req[w].fields /\ req[w].fields["name"] = JStr("")
        /\ NonEmptyField(req[w].fields, "email") /\ NonEmptyField(req[w].fields, "message")
        /\ Len(table) >= 1

\* C3 as stated: a request whose body is not well-formed JSON is answered
\* error/400 before any field is read, and no row is created.
C3_MalformedRejected ==
    \A w \in Workers :
        (Answered(w) /\ ~req[w].wellformed)
            => /\ resp[w].status = "error" /\ resp[w].code = 400
               /\ ~inspected[w]
               /\ table = tableAtCall[w]

\* C4: when add or commit raises, rollback runs before any response exists,
\* the response is error/500, and the committed rows are those found at the
\* call.
C4_RollbackThen500 ==
    \A w \in Workers :
        caught[w] =>
            /\ table = tableAtCall[w]
            /\ IF pc[w] = "except"
               THEN resp[w] = NoResp /\ (ops[w] = <<>> \/ ops[w][Len(ops[w])] # "rollback")
               ELSE /\ pc[w] \in {"rolledback", "done"}
                    /\ ops[w] # <<>> /\ ops[w][Len(ops[w])] = "rollback"
                    /\ session[SessionKey(w)] = <<>>
                    /\ pc[w] = "rolledback" => resp[w] = NoResp
                    /\ pc[w] = "done" => resp[w].status = "error" /\ resp[w].code = 500

C4_Witness ==
    \E w \in Workers :
        /\ Answered(w) /\ caught[w]
        /\ ops[w] = <<"add", "commit", "rollback">>
        /\ Len(table) >= 1

\* C5 as stated: every request, whatever its body and whatever storage does,
\* ends with a JSON answer (status success or error, a message, code 200, 400
\* or 500); no exception leaves the handler.
C5_AlwaysJsonAnswer ==
    \A w \in Workers :
        Answered(w) =>
            /\ escaped[w] = ""
            /\ resp[w].status \in {"success", "error"}
            /\ resp[w].message # ""
            /\ resp[w].code \in {200, 400, 500}

\* C6: every stored row has non-empty name, email and message and a timestamp
\* that is set and was read from the clock when the row was inserted (not
\* before the request arrived, not after now), whatever the payload carried.
C6_RowsWellFormed ==
    \A i \in 1..Len(table) :
        /\ table[i].name.t = "str" /\ table[i].name.v # ""
        /\ table[i].email.t = "str" /\ table[i].email.v # ""
        /\ table[i].message.t = "str" /\ table[i].message.v # ""
        /\ table[i].timestamp # Unset
        /\ table[i].rid <= table[i].timestamp /\ table[i].timestamp <= clock

C6_Witness ==
    \E w \in Workers :
        /\ Answered(w) /\ resp[w].code = 200
        /\ "timestamp" \in DOMAIN req[w].fields
        /\ failed # {}
        /\ OwnRows(w) # {}

\* C7: every run of db.create_all() leaves an existing table's definition
\* and rows as they are, and creates the (empty) table only when it is
\* absent.
C7_CreateAllIdempotent ==
    [][(phase = "boot" /\ phase' = "serving") =>
          /\ tableExists'
          /\ tableExists => (table' = table /\ schema' = schema)
          /\ ~tableExists => (table' = <<>> /\ schema' = Columns)]_vars

\* db.create_all() has run on a database that already held the table and a row
C7_Witness ==
    /\ phase = "serving" /\ clock = 0
    /\ tableExists /\ table = <<OldRow>>

\* C8 as stated: a valid payload whose subject is the empty string and one
\* with no subject key both get a row whose subject is null.
C8_EmptySubjectIsNull ==
    \A w \in Workers :
        (Answered(w) /\ resp[w].code = 200
           /\ Submitted(req[w], "subject") \in {JNull, JStr("")})
            => \A i \in OwnRows(w) : table[i].subject = JNull

\* C8 amended: the row stores the subject as submitted: null when the key is
\* absent, the empty string when the subject is the empty string.
C8_SubjectStoredAsGiven ==
    \A w \in Workers :
        (Answered(w) /\ resp[w].code = 200)
            => /\ OwnRows(w) # {}
               /\ \A i \in OwnRows(w) :
                    table[i].subject =
                        IF "subject" \in DOMAIN req[w].fields
                        THEN req[w].fields["subject"] ELSE JNull

C8_Witness ==
    \E w \in Workers :
        /\ Answered(w) /\ resp[w].code = 200
        /\ "subject" \in DOMAIN req[w].fields /\ req[w].fields["subject"] = JStr("")
        /\ \E i \in OwnRows(w) : table[i].subject = JStr("")
        /\ \E j \in 1..Len(table) : table[j].rid > 0 /\ table[j].subject = JNull

\* C9: once a failed insert is rolled back its record is in no session, a
\* failed request never has a row, a successful request adds exactly its own
\* row, and the table changes only by one row appended by a request that
\* succeeds.
C9_NoSharedPersistenceState ==
    /\ [](/\ \A i \in 1..Len(table) : table[i].rid \notin failed
          /\ \A w \in Workers :
               /\ (caught[w] /\ pc[w] \in {"rolledback", "done"})
                     => \A k \in AllWorkers : \A j \in 1..Len(session[k]) :
                            session[k][j].rid # rid[w]
               /\ pc[w] = "idle" => session[SessionKey(w)] = <<>>
               /\ (Answered(w) /\ resp[w].code = 200) => OneNewRow(w))
    /\ [][table' # table =>
            \E w \in Workers :
                /\ pc[w] = "commit" /\ resp'[w].code = 200
                /\ Len(table') = Len(table) + 1
                /\ SubSeq(table', 1, Len(table)) = table
                /\ table'[Len(table')].rid = rid[w]]_vars

C9_Witness ==
    \E w \in Workers :
        /\ Answered(w) /\ resp[w].code = 200
        /\ rid[w] - 1 \in failed
        /\ OneNewRow(w)

\* C10: with concurrent requests, every row belongs to one request and
\* carries that request's fields, a request answered 200 has exactly one row,
\* a request whose insert raised has none, and a session holds only records
\* of the request using it.
C10_ConcurrentIsolation ==
    /\ \A i, j \in 1..Len(table) : (i # j /\ table[i].rid > 0) => table[i].rid # table[j].rid
    /\ \A i \in 1..Len(table) : table[i].rid \notin failed
    /\ \A w \in Workers :
         /\ \A i \in OwnRows(w) : pc[w] # "idle" => RowMatches(table[i], req[w])
         /\ (Answered(w) /\ resp[w].code = 200) => Cardinality(OwnRows(w)) = 1
         /\ (pc[w] # "idle" /\ resp[w].code # 200) => OwnRows(w) = {}
         /\ pc[w] = "commit" => Len(session[SessionKey(w)]) = 1
         /\ \A j \in 1..Len(session[SessionKey(w)]) : session[SessionKey(w)][j].rid = rid[w]

C10_Witness ==
    \E w, v \in Workers :
        /\ w # v
        /\ Answered(w) /\ resp[w].code = 200 /\ Cardinality(OwnRows(w)) = 1
        /\ pc[v] = "rolledback" /\ rid[v] < rid[w]
        /\ "commit" \in {ops[v][n] : n \in 1..Len(ops[v])}

====
